---- MODULE Spec2Model ----
(***************************************************************************)
(* Model of src/dataset/image_preprocess.py: the bean extraction           *)
(* (process_coffee_beans), the result writer (save_image) and the worker   *)
(* pool (worker, main).                                                    *)
(*                                                                         *)
(* Numbers.  OpenCV returns floats for a rectangle's centre and size.  The *)
(* model keeps them as integers counted in halves (cx2 = 2 * center.x), so *)
(* that the truncations int(...) of the code are computed, not assumed.    *)
(* The pixel pipeline (cvtColor .. findContours) is library code: an image *)
(* is represented by its shape and by the contours findContours returns,   *)
(* each with the values contourArea and minAreaRect return for it.         *)
(***************************************************************************)
EXTENDS Integers, Sequences, FiniteSets, TLC

VARIABLES
    \* ---- process_coffee_beans called on its own (SpecBeans) ----
    image,              \* the argument: [w, h, contours]
    thresholds,         \* <<pixel_threshold_lower, pixel_threshold_upper>>
    returned,           \* <<>> before the call, <<[result, rotated_beans]>> after
    \* ---- the file system ----
    folders,            \* the folders that exist, among FolderNames
    original_listing,   \* what glob returns for the source folder (lines 174-178)
    processed,          \* processed_image_folder: basename -> number of writes
    crops,              \* coffee_beans_image_folder: set of [ns, num, ctime, by]
    clock,              \* the file system's clock: the ctime of the last write
    \* ---- main (lines 163-202) ----
    mainPc,             \* "start", "put", "sentinel", "join", "returned"
    mainI,              \* the position of main's current for loop
    image_files,        \* main's list of paths
    image_queue,        \* multiprocessing.Queue(maxsize=16): the items not yet got
    \* ---- the workers (lines 140-161) ----
    wpc,                \* "unborn", "get", "process", "scan", "write", "exited", "crashed"
    image_path,         \* the path a worker has in hand (None when it has none)
    bean_k,             \* the position (1-based) of the bean being saved, else 0
    latest_image_number,\* save_image's local of that name, per worker
    \* ---- history (not program state) ----
    scan_seen,          \* per worker: [clock, max] at its last scan
    dequeued,           \* path -> how many times get returned it
    sentinels,          \* worker -> how many sentinels it got
    log,                \* the completed save_image calls, in order
    warned,             \* the paths of the workers' warnings of line 148
    main_log,           \* main's messages of lines 165, 179 and 202, in order:
                        \* <<level, message, arguments>>
    \* ---- clean_dataset (src/utils/file_utils.py, lines 158-200) ----
    data,               \* data['dataset'] in key order: a list of [path, labels]
    clean_result,       \* <<>> before the call, <<[cleaned, data]>> after
    \* ---- CoffeeBeanLabeler (src/dataset_label_marking_pyqt.py) ----
    labelerPc,          \* "loaded" (after line 215), "ready" (after line 221)
    image_labels,       \* per image of image_paths, its labels in the dataset
    last_index,         \* settings['last_index']
    current_index,      \* self.current_index (0-based)
    \* ---- show_overview and the ImageLoader thread ----
    guiPc,              \* the GUI thread: "main_window", "constructed",
                        \* "progress_connected", "event_loop"
    loaderPc,           \* the loader thread: "unstarted", "loading", "retrying",
                        \* "finished"
    to_load,            \* the paths run() has not tried yet
    loaded_count,       \* run()'s local of that name
    failed_paths,       \* the length of run()'s list of that name
    retry,              \* the retry rounds done (line 86)
    progress_connected, \* the dialog's handler is connected to progress_updated
    finished_connected, \* show_overview's handler is connected to loading_finished
    gui_events,         \* the slot calls queued for the GUI thread
    dialog_open,        \* the loading dialog is shown
    window_shown,       \* the overview window is shown
    missed              \* history: loading_finished was emitted with no handler
                        \* of show_overview connected

beanVars == <<image, thresholds, returned>>

fsVars == <<folders, original_listing, processed, crops, clock>>

mainVars == <<mainPc, mainI, image_files, image_queue>>

workerVars == <<wpc, image_path, bean_k, latest_image_number>>

histVars == <<scan_seen, dequeued, sentinels, log, warned, main_log>>

poolVars == <<fsVars, mainVars, workerVars, histVars>>

cleanVars == <<data, clean_result>>

labelerVars == <<labelerPc, image_labels, last_index, current_index>>

overviewVars == <<guiPc, loaderPc, to_load, loaded_count, failed_paths, retry,
                  progress_connected, finished_connected, gui_events,
                  dialog_open, window_shown, missed>>

toolVars == <<cleanVars, labelerVars, overviewVars>>

vars == <<beanVars, poolVars, toolVars>>

----------------------------------------------------------------------------
(* Helpers *)

Max(a, b) == IF a >= b THEN a ELSE b

Min(a, b) == IF a <= b THEN a ELSE b

\* Python int() of a float given in halves: truncation toward zero.
IntOfHalves(n2) == IF n2 >= 0 THEN n2 \div 2 ELSE -((-n2) \div 2)

----------------------------------------------------------------------------
(* process_coffee_beans *)

expand == 3

\* Line 85 and line 92: the area test, strict on both sides.
AreaInRangeLe(area, lower, upper) == lower <= area /\ area <= upper

AreaInRange(area, lower, upper) == lower < area /\ area < upper

\* Lines 83-85: the contours kept, as indices into the list findContours gave,
\* in the order findContours gave them.
RECURSIVE FilterFrom(_, _, _, _)
FilterFrom(contours, i, lower, upper) ==
    IF i > Len(contours) THEN <<>>
    ELSE (IF AreaInRange(contours[i].area, lower, upper) THEN <<i>> ELSE <<>>)
             \o FilterFrom(contours, i + 1, lower, upper)

filtered_contours(img, lower, upper) == FilterFrom(img.contours, 1, lower, upper)

\* Line 104: the test that swaps the sides (on the truncated sizes).
SwapNeededGt(width, height) == width > height

SwapNeeded(width, height) == width < height

\* Lines 118-119: the start of the crop on one axis, clamped at the edge 0.
ClampStartNone(raw) == raw

ClampStart(raw) == Max(0, raw)

\* Lines 120-121: the end of the crop on one axis, from the CLAMPED start.
CropEndNoSize(limit, start, size) == Min(limit, start)

CropEnd(limit, start, size) == Min(limit, start + size)

\* Lines 81, 98-99, 110: result is a copy of image, the boxes and labels are
\* drawn on result and the rotation is taken of image.  The number of boxes
\* that are on image once n boxes were drawn on result.
DrawnOnImageAliased(n) == n

DrawnOnImage(n) == 0

\* Lines 94-136: one pass of the loop body for the contour c at position idx
\* (0-based, as enumerate gives it) of filtered_contours.
BeanOf(img, c, idx, ci) ==
    LET width0  == IntOfHalves(c.w2)
        height0 == IntOfHalves(c.h2)
        swap    == SwapNeeded(width0, height0)
        angle   == IF swap THEN c.angle + 90 ELSE c.angle
        width   == IF swap THEN height0 ELSE width0
        height  == IF swap THEN width0 ELSE height0
        x_raw   == IntOfHalves(c.cx2 - 2 * (width \div 2) - 2 * expand)
        y_raw   == IntOfHalves(c.cy2 - 2 * (height \div 2) - 2 * expand)
        w_rot   == width + expand * 2
        h_rot   == height + expand * 2
        x_rot   == ClampStart(x_raw)
        y_rot   == ClampStart(y_raw)
        x_end   == CropEnd(img.w, x_rot, w_rot)
        y_end   == CropEnd(img.h, y_rot, h_rot)
    IN  [ contour |-> ci,
          idx     |-> idx,
          label   |-> idx + 1,
          rect    |-> [cx2 |-> c.cx2, cy2 |-> c.cy2, w2 |-> c.w2, h2 |-> c.h2,
                       angle |-> c.angle],
          angle   |-> angle,
          width   |-> width,
          height  |-> height,
          x_raw   |-> x_raw,  y_raw |-> y_raw,
          w_rot   |-> w_rot,  h_rot |-> h_rot,
          x_rot   |-> x_rot,  y_rot |-> y_rot,
          x_end   |-> x_end,  y_end |-> y_end,
          \* line 110: the boxes on the image that is rotated and cut, this
          \* candidate's box being the (idx + 1)-th drawn
          crop_marks |-> DrawnOnImage(idx + 1),
          \* numpy slice rotated[y_rot:y_end, x_rot:x_end]: its shape
          crop_w  |-> Max(0, Min(x_end, img.w) - Min(x_rot, img.w)),
          crop_h  |-> Max(0, Min(y_end, img.h) - Min(y_rot, img.h)) ]

\* Line 123: the crop is empty.
CropInvalidNever(b) == FALSE

CropInvalid(b) == b.crop_w * b.crop_h = 0 \/ b.crop_h = 0 \/ b.crop_w = 0

\* Lines 52-138.  result is the overview: the list of boxes and labels drawn on
\* the copy of the image; rotated_beans is the list of emitted beans; warnings
\* holds the labels of the warnings of line 124; image_marks is the number of
\* boxes on the argument when the function returns.
process_coffee_beans_break(img, lower, upper) ==
    LET filtered == filtered_contours(img, lower, upper)
        passes   == [k \in 1..Len(filtered) |->
                        BeanOf(img, img.contours[filtered[k]], k - 1, filtered[k])]
        InLoop(b) == AreaInRange(img.contours[b.contour].area, lower, upper)
        drawn    == SelectSeq(passes, InLoop)
        Skip(b)  == InLoop(b) /\ CropInvalid(b)
        Emit(b)  == /\ InLoop(b) /\ ~CropInvalid(b)
                    /\ \A j \in 1..b.idx : ~Skip(passes[j])
    IN  [ result        |-> [k \in 1..Len(drawn) |->
                               [contour |-> drawn[k].contour, label |-> drawn[k].label]],
          candidates    |-> drawn,
          warnings      |-> [k \in 1..Len(SelectSeq(passes, Skip)) |->
                               SelectSeq(passes, Skip)[k].label],
          image_marks   |-> DrawnOnImage(Len(drawn)),
          rotated_beans |-> SelectSeq(passes, Emit) ]

process_coffee_beans(img, lower, upper) ==
    LET filtered == filtered_contours(img, lower, upper)
        passes   == [k \in 1..Len(filtered) |->
                        BeanOf(img, img.contours[filtered[k]], k - 1, filtered[k])]
        InLoop(b) == AreaInRange(img.contours[b.contour].area, lower, upper)
        drawn    == SelectSeq(passes, InLoop)
        Skip(b)  == InLoop(b) /\ CropInvalid(b)
        Emit(b)  == InLoop(b) /\ ~CropInvalid(b)
    IN  [ result        |-> [k \in 1..Len(drawn) |->
                               [contour |-> drawn[k].contour, label |-> drawn[k].label]],
          candidates    |-> drawn,
          warnings      |-> [k \in 1..Len(SelectSeq(passes, Skip)) |->
                               SelectSeq(passes, Skip)[k].label],
          image_marks   |-> DrawnOnImage(Len(drawn)),
          rotated_beans |-> SelectSeq(passes, Emit) ]

----------------------------------------------------------------------------
(* SpecBeans: process_coffee_beans applied to every image of a bounded set *)

MaxContours == 2

\* <<lower, upper>> pairs and the areas around them: below lower, equal to
\* lower, strictly inside, equal to upper, above upper.
ThresholdPairs == {<<1, 3>>, <<2, 4>>}

Areas == 0..5

ImageW == 20

ImageH == 12

\* Centres (in halves): the corner (0,0), near the corner (3.5), the far edge,
\* and 30.0, beyond the right edge by more than any half side plus expand: the
\* one kind of rectangle for which the slice of line 122 is empty.
CentersX2 == {0, 7, 39, 60}

CentersY2 == {0, 12}

\* Sizes (in halves) <<w2, h2>>: 3 < 6; 4.0 < 4.5 (equal once truncated); 6 > 3;
\* 30 > 2 (wider than the image).
Sizes2 == {<<6, 12>>, <<8, 9>>, <<12, 6>>, <<60, 4>>}

Angles == {-30}

\* Every shape with the area 3 (strictly inside <<2, 4>>, equal to upper for
\* <<1, 3>>), and one shape with every area.
ContourSet ==
    { [area |-> 3, cx2 |-> cx, cy2 |-> cy, w2 |-> s[1], h2 |-> s[2], angle |-> g] :
        cx \in CentersX2, cy \in CentersY2, s \in Sizes2, g \in Angles }
    \cup
    { [area |-> a, cx2 |-> 20, cy2 |-> 12, w2 |-> 6, h2 |-> 12, angle |-> g] :
        a \in Areas, g \in Angles }

SeqsUpTo(S, n) == UNION { [1..k -> S] : k \in 0..n }

NoImage == [w |-> 0, h |-> 0, contours |-> <<>>]

\* The pool when it is not part of a specification: nothing exists, main has
\* not been called, no worker was spawned.
PoolIdle ==
    /\ folders = {}
    /\ original_listing = <<>>
    /\ processed = <<>>
    /\ crops = {}
    /\ clock = 0
    /\ mainPc = "idle"
    /\ mainI = 0
    /\ image_files = <<>>
    /\ image_queue = <<>>
    /\ wpc = <<>>
    /\ image_path = <<>>
    /\ bean_k = <<>>
    /\ latest_image_number = <<>>
    /\ scan_seen = <<>>
    /\ dequeued = <<>>
    /\ sentinels = <<>>
    /\ log = <<>>
    /\ warned = {}
    /\ main_log = <<>>

\* The label tool when it is not part of a specification: nothing was
\* loaded, no window is open, no thread was started.
CleanIdle == data = <<>> /\ clean_result = <<>>

LabelerIdle ==
    /\ labelerPc = "idle"
    /\ image_labels = <<>>
    /\ last_index = 0
    /\ current_index = 0

OverviewIdle ==
    /\ guiPc = "idle"
    /\ loaderPc = "unstarted"
    /\ to_load = 0
    /\ loaded_count = 0
    /\ failed_paths = 0
    /\ retry = 0
    /\ progress_connected = FALSE
    /\ finished_connected = FALSE
    /\ gui_events = <<>>
    /\ dialog_open = FALSE
    /\ window_shown = FALSE
    /\ missed = FALSE

InitBeans ==
    /\ CleanIdle /\ LabelerIdle /\ OverviewIdle
    /\ image \in { [w |-> ImageW, h |-> ImageH, contours |-> cs] :
                     cs \in SeqsUpTo(ContourSet, MaxContours) }
    /\ thresholds \in ThresholdPairs
    /\ returned = <<>>
    /\ PoolIdle

CallProcess ==
    /\ returned = <<>>
    /\ returned' = <<process_coffee_beans(image, thresholds[1], thresholds[2])>>
    /\ UNCHANGED <<image, thresholds, poolVars, toolVars>>

NextBeans == CallProcess

SpecBeans == InitBeans /\ [][NextBeans]_vars

----------------------------------------------------------------------------
(* File names.                                                             *)
(*                                                                         *)
(* A source file's base name is the list of its '.'-separated parts, each  *)
(* part the list of its '_'-separated tokens: a_coffee_bean.jpg is         *)
(* << <<"a", "coffee", "bean">>, <<"jpg">> >>.  A path stands for its base *)
(* name: every source file is in the one source folder.  A file of the     *)
(* crop folder, {namespace}_{num}.jpg, is [ns, num] with ns the token list *)
(* of the namespace.                                                       *)

None == <<>>

FolderNames == {"original", "processed", "coffee_beans"}

\* Line 160: os.path.basename(image_path).split('.')[0] + "_coffee_bean".
Namespace(path) == path[1] \o <<"coffee", "bean">>

\* Line 40: glob {namespace}_*.jpg.  The file ns_num.jpg matches when its
\* name starts with the namespace followed by '_': the namespace's tokens are
\* the first tokens of the file's.
GlobMatches(namespace, f) ==
    /\ Len(namespace) <= Len(f.ns)
    /\ SubSeq(f.ns, 1, Len(namespace)) = namespace

\* Line 42: max(existing_images, key=os.path.getctime).
LatestImage(existing) == CHOOSE f \in existing : \A g \in existing : g.ctime <= f.ctime

\* Lines 40-45: the number save_image reads off the folder.
ScanNumberZero(files, namespace) == 0

ScanNumber(files, namespace) ==
    LET existing_images == { f \in files : GlobMatches(namespace, f) }
    IN  IF existing_images # {}
        \* line 43: int(basename.split('_')[-1].split('.')[0]) is the file's num
        THEN LatestImage(existing_images).num
        ELSE 0

\* Line 48: the number of the file save_image writes, from the number its scan
\* left in latest_image_number.
ImageNumberRescan(files, namespace, latest) == ScanNumber(files, namespace) + 1

ImageNumber(files, namespace, latest) == latest + 1

\* Line 156: cv2.imwrite chooses the encoder from the extension of the path it
\* is given, which is the source's.
OverviewFormat(path) ==
    IF path[Len(path)] = <<"png">> THEN "png" ELSE "jpeg"

\* Line 49: cv2.imwrite(image_path, image) creates the file or replaces it.
WriteFile(files, f) ==
    { g \in files : ~(g.ns = f.ns /\ g.num = f.num) } \cup {f}

----------------------------------------------------------------------------
(* The source folder of the bounded model *)

num_workers == 4

maxsize == 16

Workers == 1..num_workers

\* Line 164: os.path.exists(original_image_folder) is false.
SourceMissingNever(fs) == FALSE

SourceMissing(fs) == "original" \notin fs

\* Lines 182, 195, 198: put blocks while the queue holds maxsize items.
QueueFullAbove(q) == Len(q) > maxsize

QueueFull(q) == Len(q) >= maxsize

\* Line 142: get blocks while the queue holds no item.
QueueEmpty(q) == Len(q) = 0

\* Line 147: image is None.
UndecodableNever(read) == FALSE

Undecodable(read) == read = None

PoolThresholds == <<2, 4>>

Bean == [area |-> 3, cx2 |-> 20, cy2 |-> 12, w2 |-> 12, h2 |-> 6, angle |-> -30]

Speck == [area |-> 1, cx2 |-> 7, cy2 |-> 12, w2 |-> 8, h2 |-> 8, angle |-> -30]

Img(cs) == [w |-> ImageW, h |-> ImageH, contours |-> cs]

A_JPG == << <<"a">>, <<"jpg">> >>

A_PNG == << <<"a">>, <<"png">> >>

A_CB_JPG == << <<"a", "coffee", "bean">>, <<"jpg">> >>

BAD_JPG == << <<"bad">>, <<"jpg">> >>

\* x.y.jpg: a base name with a '.' before the extension's.
X_Y_JPG == << <<"x">>, <<"y">>, <<"jpg">> >>

\* z_i.jpg decodes and holds no bean; p_i.jpg does not decode.
ZFile(i) == << <<"z", ToString(i)>>, <<"jpg">> >>

PFile(i) == << <<"p", ToString(i)>>, <<"jpg">> >>

MaxListing == 2

MaxPad == 13

\* The small source folder, in the order glob lists it (lines 174-178: the
\* .jpg files, then the .png files).
SmallFiles == <<A_JPG, A_CB_JPG, BAD_JPG, A_PNG>>

Catalogue ==
    { [name |-> A_JPG,    decodable |-> TRUE,  img |-> Img(<<Bean, Speck, Bean>>)],
      [name |-> A_PNG,    decodable |-> TRUE,  img |-> Img(<<Speck, Bean>>)],
      [name |-> A_CB_JPG, decodable |-> TRUE,  img |-> Img(<<Bean>>)],
      [name |-> BAD_JPG,  decodable |-> FALSE, img |-> NoImage],
      [name |-> X_Y_JPG,  decodable |-> TRUE,  img |-> Img(<<Bean>>)] }
    \cup { [name |-> ZFile(i), decodable |-> TRUE, img |-> Img(<<Speck>>)] :
             i \in 1..num_workers }
    \cup { [name |-> PFile(i), decodable |-> FALSE, img |-> NoImage] :
             i \in 1..(MaxPad + 1) }

\* Line 146: cv2.imread: <<the image>>, or None when the file does not decode.
imread(path) ==
    LET f == CHOOSE f \in Catalogue : f.name = path
    IN  IF f.decodable THEN <<f.img>> ELSE None

\* The lists of at most n elements of the list s, in the order of s.
RECURSIVE Pick(_, _)
Pick(s, keep) ==
    IF s = <<>> THEN <<>>
    ELSE (IF keep[1] THEN <<s[1]>> ELSE <<>>) \o Pick(Tail(s), Tail(keep))

SubLists(s, n) ==
    { Pick(s, keep) : keep \in { k \in [1..Len(s) -> BOOLEAN] :
                                   Cardinality({ i \in 1..Len(s) : k[i] }) <= n } }

DrainListing(k, j) == [i \in 1..(k + j) |-> IF i <= k THEN ZFile(i) ELSE PFile(i - k)]

\* The listings the model runs main on: up to MaxListing of the small files
\* (shared namespaces, beans to save), x.y.jpg on its own, and k bean-less
\* images followed by j undecodable ones (fewer paths than maxsize, and more).
Listings ==
    SubLists(SmallFiles, MaxListing)
    \cup { <<X_Y_JPG>> }
    \cup { DrainListing(k, j) : k \in 0..num_workers, j \in {0, 1} }
    \cup { DrainListing(k, MaxPad) : k \in {0, num_workers} }

NsA == Namespace(A_JPG)

Old(n, t) == [ns |-> NsA, num |-> n, ctime |-> t, by |-> <<>>]

\* The crop folder before the run: empty, or holding two crops of an earlier
\* run whose creation times are in the order of their numbers, or not.
InitialCrops == { {}, {Old(1, 1), Old(2, 2)}, {Old(1, 2), Old(2, 1)} }

----------------------------------------------------------------------------
(* main (lines 163-202) *)

\* History: the numerically highest suffix among the files matching the
\* namespace's pattern, 0 when there is none.
HighestNumber(files, namespace) ==
    LET nums == { f.num : f \in { g \in files : GlobMatches(namespace, g) } }
    IN  IF nums = {} THEN 0 ELSE CHOOSE n \in nums : \A m \in nums : m <= n

\* History: the number of the most recently created file of exactly this
\* namespace, 0 when there is none.
OwnLatest(files, namespace) ==
    LET own == { f \in files : f.ns = namespace }
    IN  IF own = {} THEN 0 ELSE LatestImage(own).num

\* scan_seen of a worker that is not inside save_image.
NoScan == [clock |-> 0, max |-> 0, own |-> 0]

InitPool ==
    /\ CleanIdle /\ LabelerIdle /\ OverviewIdle
    /\ image = NoImage
    /\ thresholds = PoolThresholds
    /\ returned = <<>>
    /\ folders \in { {}, {"original"}, FolderNames }
    /\ original_listing \in Listings
    /\ "original" \notin folders => original_listing = <<>>
    /\ processed = <<>>
    /\ crops \in InitialCrops
    /\ "coffee_beans" \notin folders => crops = {}
    /\ crops # {} => Len(original_listing) <= MaxListing
    /\ clock = 2
    /\ mainPc = "start"
    /\ mainI = 0
    /\ image_files = <<>>
    /\ image_queue = <<>>
    /\ wpc = [w \in Workers |-> "unborn"]
    /\ image_path = [w \in Workers |-> None]
    /\ bean_k = [w \in Workers |-> 0]
    /\ latest_image_number = [w \in Workers |-> 0]
    /\ scan_seen = [w \in Workers |-> NoScan]
    /\ dequeued = <<>>
    /\ sentinels = [w \in Workers |-> 0]
    /\ log = <<>>
    /\ warned = {}
    /\ main_log = <<>>

\* Lines 164-166: the source folder does not exist.
MainAbort ==
    /\ mainPc = "start"
    /\ SourceMissing(folders)
    /\ main_log' = Append(main_log, <<"error", "source folder missing", <<>>>>)
    /\ mainPc' = "returned"
    /\ UNCHANGED <<toolVars, beanVars, fsVars, mainI, image_files, image_queue, workerVars,
                   scan_seen, dequeued, sentinels, log, warned>>

\* Lines 167-191: create the destination folders, list the images, create the
\* queue, start the workers.
MainStart ==
    /\ mainPc = "start"
    /\ ~SourceMissing(folders)
    /\ folders' = folders \cup {"processed", "coffee_beans"}
    /\ main_log' = Append(main_log, <<"info", "images found", <<Len(original_listing)>>>>)
    /\ image_files' = original_listing
    /\ image_queue' = <<>>
    /\ wpc' = [w \in Workers |-> "get"]
    /\ mainPc' = IF Len(original_listing) = 0 THEN "sentinel" ELSE "put"
    /\ mainI' = 1
    /\ UNCHANGED <<toolVars, beanVars, original_listing, processed, crops, clock,
                   image_path, bean_k, latest_image_number,
                   scan_seen, dequeued, sentinels, log, warned>>

\* Lines 194-195: image_queue.put(image_path); put blocks while the queue is full.
MainPut ==
    /\ mainPc = "put"
    /\ ~QueueFull(image_queue)
    /\ image_queue' = Append(image_queue, image_files[mainI])
    /\ IF mainI = Len(image_files)
       THEN mainPc' = "sentinel" /\ mainI' = 1
       ELSE mainPc' = "put" /\ mainI' = mainI + 1
    /\ UNCHANGED <<toolVars, beanVars, fsVars, image_files, workerVars, histVars>>

\* Lines 197-198: image_queue.put(None), once per worker.
MainSentinel ==
    /\ mainPc = "sentinel"
    /\ ~QueueFull(image_queue)
    /\ image_queue' = Append(image_queue, None)
    /\ IF mainI = num_workers
       THEN mainPc' = "join" /\ mainI' = 1
       ELSE mainPc' = "sentinel" /\ mainI' = mainI + 1
    /\ UNCHANGED <<toolVars, beanVars, fsVars, image_files, workerVars, histVars>>

\* Lines 200-202: p.join() for each worker in turn; join returns when the
\* process has ended, however it ended.
MainJoin ==
    /\ mainPc = "join"
    /\ wpc[mainI] \in {"exited", "crashed"}
    /\ IF mainI = num_workers
       THEN /\ mainPc' = "returned" /\ mainI' = mainI
            /\ main_log' = Append(main_log, <<"info", "all images done", <<>>>>)
       ELSE /\ mainPc' = "join" /\ mainI' = mainI + 1
            /\ main_log' = main_log
    /\ UNCHANGED <<toolVars, beanVars, fsVars, image_files, image_queue, workerVars,
                   scan_seen, dequeued, sentinels, log, warned>>

----------------------------------------------------------------------------
(* worker (lines 140-161) and save_image (lines 34-50) *)

Bump(f, x) == IF x \in DOMAIN f THEN [f EXCEPT ![x] = @ + 1] ELSE f @@ (x :> 1)

\* The beans process_coffee_beans emits for the image at path.
BeansOf(path) ==
    process_coffee_beans(imread(path)[1], thresholds[1], thresholds[2]).rotated_beans

\* Lines 142-149: get an item; a sentinel ends the loop; a file that does not
\* decode is logged and skipped.
WorkerGet(w) ==
    /\ wpc[w] = "get"
    /\ ~QueueEmpty(image_queue)
    /\ image_queue' = Tail(image_queue)
    /\ LET item == Head(image_queue)
       IN  IF item = None
           THEN /\ wpc' = [wpc EXCEPT ![w] = "exited"]
                /\ sentinels' = [sentinels EXCEPT ![w] = @ + 1]
                /\ UNCHANGED <<image_path, dequeued, warned>>
           ELSE /\ dequeued' = Bump(dequeued, item)
                /\ sentinels' = sentinels
                /\ IF Undecodable(imread(item))
                   THEN /\ warned' = warned \cup {item}
                        /\ UNCHANGED <<wpc, image_path>>
                   ELSE /\ wpc' = [wpc EXCEPT ![w] = "process"]
                        /\ image_path' = [image_path EXCEPT ![w] = item]
                        /\ warned' = warned
    /\ UNCHANGED <<toolVars, beanVars, fsVars, mainPc, mainI, image_files, bean_k,
                   latest_image_number, scan_seen, log, main_log>>

\* Lines 150-157: process_coffee_beans, then the overview written under the
\* source's base name; then the loop over the beans, or the next get.
WorkerProcess(w) ==
    /\ wpc[w] = "process"
    /\ processed' = Bump(processed, image_path[w])
    /\ IF Len(BeansOf(image_path[w])) = 0
       THEN /\ wpc' = [wpc EXCEPT ![w] = "get"]
            /\ image_path' = [image_path EXCEPT ![w] = None]
            /\ bean_k' = bean_k
       ELSE /\ wpc' = [wpc EXCEPT ![w] = "scan"]
            /\ bean_k' = [bean_k EXCEPT ![w] = 1]
            /\ image_path' = image_path
    /\ UNCHANGED <<toolVars, beanVars, folders, original_listing, crops, clock, mainVars,
                   latest_image_number, histVars>>

\* save_image, lines 35-45: make the folder if it is missing, scan it.
SaveScan(w) ==
    /\ wpc[w] = "scan"
    /\ folders' = folders \cup {"coffee_beans"}
    /\ latest_image_number' =
          [latest_image_number EXCEPT ![w] = ScanNumber(crops, Namespace(image_path[w]))]
    /\ scan_seen' = [scan_seen EXCEPT ![w] =
          [clock |-> clock,
           max   |-> HighestNumber(crops, Namespace(image_path[w])),
           own   |-> OwnLatest(crops, Namespace(image_path[w]))]]
    /\ wpc' = [wpc EXCEPT ![w] = "write"]
    /\ UNCHANGED <<toolVars, beanVars, original_listing, processed, crops, clock, mainVars,
                   image_path, bean_k, dequeued, sentinels, log, warned, main_log>>

\* save_image, lines 48-50: write namespace_{latest_image_number + 1}.jpg; then
\* the next bean of the image (line 158), or the next get (line 142).
SaveWrite(w) ==
    /\ wpc[w] = "write"
    /\ LET ns  == Namespace(image_path[w])
           num == ImageNumber(crops, ns, latest_image_number[w])
           f   == [ns |-> ns, num |-> num, ctime |-> clock + 1,
                   by |-> <<image_path[w], bean_k[w]>>]
       IN  /\ crops' = WriteFile(crops, f)
           /\ log' = Append(log, [w |-> w, ns |-> ns, num |-> num,
                                  path |-> image_path[w], k |-> bean_k[w],
                                  latest |-> latest_image_number[w],
                                  scan_clock |-> scan_seen[w].clock,
                                  scan_max |-> scan_seen[w].max,
                                  scan_own |-> scan_seen[w].own,
                                  existed |-> \E g \in crops : g.ns = ns /\ g.num = num])
    /\ clock' = clock + 1
    /\ IF bean_k[w] = Len(BeansOf(image_path[w]))
       THEN /\ wpc' = [wpc EXCEPT ![w] = "get"]
            /\ image_path' = [image_path EXCEPT ![w] = None]
            /\ bean_k' = [bean_k EXCEPT ![w] = 0]
       ELSE /\ wpc' = [wpc EXCEPT ![w] = "scan"]
            /\ bean_k' = [bean_k EXCEPT ![w] = @ + 1]
            /\ image_path' = image_path
    /\ latest_image_number' = [latest_image_number EXCEPT ![w] = 0]
    /\ scan_seen' = [scan_seen EXCEPT ![w] = NoScan]
    /\ UNCHANGED <<toolVars, beanVars, folders, original_listing, processed, mainVars,
                   dequeued, sentinels, warned, main_log>>

\* An exception raised while an image is processed or written (cv2.error,
\* OSError, MemoryError, ...): worker has no try, so the exception leaves the
\* loop and the process ends.
WorkerRaise(w) ==
    /\ wpc[w] \in {"process", "scan", "write"}
    /\ wpc' = [wpc EXCEPT ![w] = "crashed"]
    /\ image_path' = [image_path EXCEPT ![w] = None]
    /\ bean_k' = [bean_k EXCEPT ![w] = 0]
    /\ latest_image_number' = [latest_image_number EXCEPT ![w] = 0]
    /\ scan_seen' = [scan_seen EXCEPT ![w] = NoScan]
    /\ UNCHANGED <<toolVars, beanVars, fsVars, mainVars, dequeued, sentinels, log, warned,
                   main_log>>

MainStep == MainAbort \/ MainStart \/ MainPut \/ MainSentinel \/ MainJoin

WorkerStep(w) ==
    WorkerGet(w) \/ WorkerProcess(w) \/ SaveScan(w) \/ SaveWrite(w) \/ WorkerRaise(w)

NextPool == MainStep \/ \E w \in Workers : WorkerStep(w)

SpecPool == InitPool /\ [][NextPool]_vars

\* The operating system schedules every process that can run.
FairSpecPool ==
    /\ SpecPool
    /\ WF_vars(MainStep)
    /\ \A w \in Workers : WF_vars(WorkerStep(w))

----------------------------------------------------------------------------
(* clean_dataset (src/utils/file_utils.py, lines 158-200)                  *)
(*                                                                         *)
(* A path is [abs, sep, parts]: absolute or relative, written with '/' or  *)
(* with '\', parts its components.  data['dataset'] is the list of its     *)
(* items, in the order of the dict.                                        *)

BeansIdle == image = NoImage /\ thresholds = PoolThresholds /\ returned = <<>>

project_root == <<"proj">>

\* Lines 11-14: normalize_path replaces every '\' by '/'.
normalize_path(path) == [path EXCEPT !.sep = "/"]

\* Lines 174-177: the standard form of a key: a relative path is joined to
\* project_root and made absolute, then normalized.
abs_path(path) ==
    IF ~path.abs
    THEN normalize_path([abs |-> TRUE, sep |-> path.sep,
                         parts |-> project_root \o path.parts])
    ELSE normalize_path(path)

\* Lines 172-184: the key at position i is appended to duplicates when the
\* standard form of an earlier key is already in unique_paths.
IsDuplicate(d, i) == \E j \in 1..(i - 1) : abs_path(d[j].path) = abs_path(d[i].path)

duplicates(d) == { d[i].path : i \in { k \in DOMAIN d : IsDuplicate(d, k) } }

\* Lines 158-200: <<cleaned, data>>.
clean_dataset(d) ==
    IF duplicates(d) = {}
    THEN [cleaned |-> FALSE, data |-> d]
    ELSE LET Kept(item) == item.path \notin duplicates(d)
         IN  [cleaned |-> TRUE, data |-> SelectSeq(d, Kept)]

MaxKeys == 3

FileNames == {"a", "b"}

\* The ways the model writes data/<name>.jpg: relative with '/', relative with
\* '\', absolute.
KeysOf(name) ==
    { [abs |-> FALSE, sep |-> "/",  parts |-> <<"data", name>>],
      [abs |-> FALSE, sep |-> "\\", parts |-> <<"data", name>>],
      [abs |-> TRUE,  sep |-> "/",  parts |-> <<"proj", "data", name>>] }

Keys == UNION { KeysOf(name) : name \in FileNames }

LabelLists == { <<"OK">>, <<"IMMATURE">> }

\* The keys of a dict are distinct.
Datasets ==
    { d \in SeqsUpTo([path : Keys, labels : LabelLists], MaxKeys) :
        \A i, j \in DOMAIN d : i # j => d[i].path # d[j].path }

InitClean ==
    /\ BeansIdle /\ PoolIdle /\ LabelerIdle /\ OverviewIdle
    /\ data \in Datasets
    /\ clean_result = <<>>

CallClean ==
    /\ clean_result = <<>>
    /\ clean_result' = <<clean_dataset(data)>>
    /\ UNCHANGED <<data, beanVars, poolVars, labelerVars, overviewVars>>

NextClean == CallClean

SpecClean == InitClean /\ [][NextClean]_vars

----------------------------------------------------------------------------
(* CoffeeBeanLabeler: current_index (src/dataset_label_marking_pyqt.py)    *)
(*                                                                         *)
(* image_paths is represented by image_labels, which holds for each image  *)
(* the labels data['dataset'] has for it (<<>> when it has none); the      *)
(* image at the 0-based index i is image_labels[i + 1].                    *)

WHITE_LIST == {"IMMATURE"}

page_step == 10

MaxImages == 12

NumImages == Len(image_labels)

LabelsAt(i) == image_labels[i + 1]

Contains(labels, label) == \E k \in DOMAIN labels : labels[k] = label

\* Lines 709, 726: labels and "OK" not in labels.
NotOk(labels) == labels # <<>> /\ ~Contains(labels, "OK")

\* Lines 743, 760: any(label in WHITE_LIST for label in labels).
InWhitelist(labels) == \E k \in DOMAIN labels : labels[k] \in WHITE_LIST

\* Lines 777, 794: len(labels) > 1.
MultiLabel(labels) == Len(labels) > 1

\* Lines 216-221: the index main starts from, brought into the list.
ClampedIndex(index, n) ==
    IF index >= n THEN n - 1
    ELSE IF index < 0 THEN 0 ELSE index

\* Line 644.
page_up_index(index, n) == Max(0, index - page_step)

\* Line 649.
page_down_unclamped(index, n) == index + page_step

page_down_index(index, n) == Min(n - 1, index + page_step)

\* The condition of each pair of find methods on the labels of an image.
Matches(kind, labels) ==
    IF kind = "not_ok" THEN NotOk(labels)
    ELSE IF kind = "whitelist" THEN InWhitelist(labels)
    ELSE MultiLabel(labels)

\* The loops of the find_prev_* methods: the nearest index before the current
\* one whose labels match, the current index when there is none.
FindPrev(kind) ==
    LET found == { i \in 0..(current_index - 1) : Matches(kind, LabelsAt(i)) }
    IN  IF found = {} THEN current_index
        ELSE CHOOSE i \in found : \A j \in found : j <= i

\* The loops of the find_next_* methods.
FindNext(kind) ==
    LET found == { i \in (current_index + 1)..(NumImages - 1) : Matches(kind, LabelsAt(i)) }
    IN  IF found = {} THEN current_index
        ELSE CHOOSE i \in found : \A j \in found : i <= j

LabelCycle == << <<>>, <<"OK">>, <<"NG">>, <<"IMMATURE">>, <<"OK", "IMMATURE">> >>

\* The datasets of the model for n images: no image labelled, or the labels
\* of LabelCycle in turn.
LabelPatterns(n) ==
    { [i \in 1..n |-> <<>>],
      [i \in 1..n |-> LabelCycle[((i - 1) % Len(LabelCycle)) + 1]] }

\* settings['last_index']: what the settings file holds, inside the list or
\* not.
LastIndexes == (0 - 2)..(MaxImages + 2)

\* The state after line 215: the images were listed (the list is not empty,
\* lines 204-212 exit otherwise) and current_index was read from the settings.
InitLabeler ==
    /\ BeansIdle /\ PoolIdle /\ CleanIdle /\ OverviewIdle
    /\ labelerPc = "loaded"
    /\ image_labels \in UNION { LabelPatterns(n) : n \in 1..MaxImages }
    /\ last_index \in LastIndexes
    /\ current_index = last_index

\* What a navigation method leaves alone.
navFrame == <<labelerPc, image_labels, last_index,
              beanVars, poolVars, cleanVars, overviewVars>>

\* Lines 217-221.
ClampIndex ==
    /\ labelerPc = "loaded"
    /\ current_index' = ClampedIndex(current_index, NumImages)
    /\ labelerPc' = "ready"
    /\ UNCHANGED <<image_labels, last_index, beanVars, poolVars, cleanVars, overviewVars>>

\* Lines 620-624.
prev_image ==
    /\ labelerPc = "ready"
    /\ current_index' = IF current_index > 0 THEN current_index - 1 ELSE current_index
    /\ UNCHANGED navFrame

\* Lines 626-630.
next_image ==
    /\ labelerPc = "ready"
    /\ current_index' = IF current_index < NumImages - 1 THEN current_index + 1 ELSE current_index
    /\ UNCHANGED navFrame

\* Lines 632-635.
first_image ==
    /\ labelerPc = "ready"
    /\ current_index' = 0
    /\ UNCHANGED navFrame

\* Lines 637-640.
last_image ==
    /\ labelerPc = "ready"
    /\ current_index' = NumImages - 1
    /\ UNCHANGED navFrame

\* Lines 642-645.
page_up ==
    /\ labelerPc = "ready"
    /\ current_index' = page_up_index(current_index, NumImages)
    /\ UNCHANGED navFrame

\* Lines 647-650.
page_down ==
    /\ labelerPc = "ready"
    /\ current_index' = page_down_index(current_index, NumImages)
    /\ UNCHANGED navFrame

\* Lines 702-717.
find_prev_not_ok ==
    /\ labelerPc = "ready"
    /\ current_index' = FindPrev("not_ok")
    /\ UNCHANGED navFrame

\* Lines 719-734.
find_next_not_ok ==
    /\ labelerPc = "ready"
    /\ current_index' = FindNext("not_ok")
    /\ UNCHANGED navFrame

\* Lines 736-751.
find_prev_whitelist ==
    /\ labelerPc = "ready"
    /\ current_index' = FindPrev("whitelist")
    /\ UNCHANGED navFrame

\* Lines 753-768.
find_next_whitelist ==
    /\ labelerPc = "ready"
    /\ current_index' = FindNext("whitelist")
    /\ UNCHANGED navFrame

\* Lines 770-785.
find_prev_multi_label ==
    /\ labelerPc = "ready"
    /\ current_index' = FindPrev("multi_label")
    /\ UNCHANGED navFrame

\* Lines 787-802.
find_next_multi_label ==
    /\ labelerPc = "ready"
    /\ current_index' = FindNext("multi_label")
    /\ UNCHANGED navFrame

NextLabeler ==
    \/ ClampIndex
    \/ prev_image \/ next_image \/ first_image \/ last_image
    \/ page_up \/ page_down
    \/ find_prev_not_ok \/ find_next_not_ok
    \/ find_prev_whitelist \/ find_next_whitelist
    \/ find_prev_multi_label \/ find_next_multi_label

SpecLabeler == InitLabeler /\ [][NextLabeler]_vars

----------------------------------------------------------------------------
(* show_overview (src/dataset_label_marking_pyqt.py, lines 554-603), the   *)
(* start of the loader in the OverviewWindow constructor                    *)
(* (src/utils/windows/overview_window.py, lines 251-295) and                *)
(* ImageLoader.run (src/utils/image_loader.py, lines 36-110).               *)
(*                                                                         *)
(* The GUI thread and the loader thread are two processes.  A signal       *)
(* emitted by the loader thread calls the handlers connected at that       *)
(* moment; a handler of the GUI thread is called through the GUI thread's  *)
(* event queue.  The events kept are those of show_overview's handlers.    *)

MaxThumbs == 3

max_retries == 2

progress_every == 10

\* pyqtSignal.emit: the handlers connected now are queued; an emission with
\* no handler connected is lost.
Emit(events, connected, event) == IF connected THEN Append(events, event) ELSE events

\* Lines 558-563, with OverviewWindow.__init__ up to loader_thread.start()
\* (overview_window.py line 287): the dialog is shown, the window is built
\* and its loader thread is started on the window's images.
OpenOverview ==
    /\ guiPc = "main_window"
    /\ dialog_open' = TRUE
    /\ loaderPc' = "loading"
    /\ \E n \in 1..MaxThumbs : to_load' = n
    /\ guiPc' = "constructed"
    /\ UNCHANGED <<loaded_count, failed_paths, retry, progress_connected,
                   finished_connected, gui_events, window_shown, missed,
                   beanVars, poolVars, cleanVars, labelerVars>>

\* Lines 566-569: connect the dialog's update_progress to progress_updated.
ConnectProgress ==
    /\ guiPc = "constructed"
    /\ progress_connected' = TRUE
    /\ guiPc' = "progress_connected"
    /\ UNCHANGED <<loaderPc, to_load, loaded_count, failed_paths, retry,
                   finished_connected, gui_events, dialog_open, window_shown, missed,
                   beanVars, poolVars, cleanVars, labelerVars>>

\* Lines 572-574: connect _show_overview_window to loading_finished; then
\* show_overview returns to the event loop.
ConnectFinished ==
    /\ guiPc = "progress_connected"
    /\ finished_connected' = TRUE
    /\ guiPc' = "event_loop"
    /\ UNCHANGED <<loaderPc, to_load, loaded_count, failed_paths, retry,
                   progress_connected, gui_events, dialog_open, window_shown, missed,
                   beanVars, poolVars, cleanVars, labelerVars>>

\* The event loop calls the next queued handler: update_progress, or
\* _show_overview_window (lines 585-603), which closes the dialog and shows
\* the window.
HandleEvent ==
    /\ guiPc = "event_loop"
    /\ gui_events # <<>>
    /\ gui_events' = Tail(gui_events)
    /\ IF Head(gui_events) = "loading_finished"
       THEN dialog_open' = FALSE /\ window_shown' = TRUE
       ELSE UNCHANGED <<dialog_open, window_shown>>
    /\ UNCHANGED <<guiPc, loaderPc, to_load, loaded_count, failed_paths, retry,
                   progress_connected, finished_connected, missed,
                   beanVars, poolVars, cleanVars, labelerVars>>

\* image_loader.py lines 44-77: one pass of the loops over the paths:
\* load_single_image succeeds or fails; progress is emitted when
\* loaded_count is a multiple of 10.
LoadOne ==
    /\ loaderPc = "loading"
    /\ to_load > 0
    /\ to_load' = to_load - 1
    /\ \E success \in BOOLEAN :
          /\ loaded_count' = IF success THEN loaded_count + 1 ELSE loaded_count
          /\ failed_paths' = IF success THEN failed_paths ELSE failed_paths + 1
    /\ gui_events' = IF loaded_count' % progress_every = 0
                     THEN Emit(gui_events, progress_connected, "progress_updated")
                     ELSE gui_events
    /\ UNCHANGED <<guiPc, loaderPc, retry, progress_connected, finished_connected,
                   dialog_open, window_shown, missed,
                   beanVars, poolVars, cleanVars, labelerVars>>

\* Line 82: the loops are over; the retry rounds follow when a path failed.
EndLoading ==
    /\ loaderPc = "loading"
    /\ to_load = 0
    /\ loaderPc' = "retrying"
    /\ UNCHANGED <<guiPc, to_load, loaded_count, failed_paths, retry,
                   progress_connected, finished_connected, gui_events,
                   dialog_open, window_shown, missed,
                   beanVars, poolVars, cleanVars, labelerVars>>

\* Lines 84-100: one retry round: some of the failed paths load now.
RetryRound ==
    /\ loaderPc = "retrying"
    /\ failed_paths > 0
    /\ retry < max_retries
    /\ \E still_failed \in 0..failed_paths :
          /\ loaded_count' = loaded_count + (failed_paths - still_failed)
          /\ failed_paths' = still_failed
    /\ retry' = retry + 1
    /\ UNCHANGED <<guiPc, loaderPc, to_load, progress_connected, finished_connected,
                   gui_events, dialog_open, window_shown, missed,
                   beanVars, poolVars, cleanVars, labelerVars>>

\* Lines 102-110: placeholders for the paths that still fail, the last
\* progress_updated, then loading_finished.
EmitFinished ==
    /\ loaderPc = "retrying"
    /\ failed_paths = 0 \/ retry = max_retries
    /\ gui_events' = Emit(Emit(gui_events, progress_connected, "progress_updated"),
                          finished_connected, "loading_finished")
    /\ missed' = ~finished_connected
    /\ loaderPc' = "finished"
    /\ UNCHANGED <<guiPc, to_load, loaded_count, failed_paths, retry,
                   progress_connected, finished_connected, dialog_open, window_shown,
                   beanVars, poolVars, cleanVars, labelerVars>>

InitOverview ==
    /\ BeansIdle /\ PoolIdle /\ CleanIdle /\ LabelerIdle
    /\ guiPc = "main_window"
    /\ loaderPc = "unstarted"
    /\ to_load = 0
    /\ loaded_count = 0
    /\ failed_paths = 0
    /\ retry = 0
    /\ progress_connected = FALSE
    /\ finished_connected = FALSE
    /\ gui_events = <<>>
    /\ dialog_open = FALSE
    /\ window_shown = FALSE
    /\ missed = FALSE

GuiStep == OpenOverview \/ ConnectProgress \/ ConnectFinished \/ HandleEvent

LoaderStep == LoadOne \/ EndLoading \/ RetryRound \/ EmitFinished

NextOverview == GuiStep \/ LoaderStep

SpecOverview == InitOverview /\ [][NextOverview]_vars

----------------------------------------------------------------------------
(* Claims about process_coffee_beans (checked under SpecBeans) *)

Returned == returned # <<>>

Candidates == returned[1].candidates

Emitted == returned[1].rotated_beans

SeqRange(s) == { s[k] : k \in DOMAIN s }

\* The centre of the candidate's rectangle is a point of the image, as is the
\* centre of every minimum-area rectangle around a contour inside the image.
CentreInImage(b) ==
    /\ 0 <= b.rect.cx2 /\ b.rect.cx2 < 2 * image.w
    /\ 0 <= b.rect.cy2 /\ b.rect.cy2 < 2 * image.h

CropEmpty(b) == b.crop_w = 0 \/ b.crop_h = 0

\* C7: a contour is treated as a candidate bean (its box is drawn on the
\* overview and its crop is attempted) if and only if lower < area < upper,
\* both strict; an area equal to lower or to upper is never a candidate.
C7_AreaFilterStrict ==
    Returned =>
        LET inside == { i \in DOMAIN image.contours :
                          /\ thresholds[1] < image.contours[i].area
                          /\ image.contours[i].area < thresholds[2] }
        IN  /\ { d.contour : d \in SeqRange(returned[1].result) } = inside
            /\ { b.contour : b \in SeqRange(Candidates) } = inside
            /\ Len(Candidates) = Cardinality(inside)

\* C7's case: one contour on a boundary (excluded) beside one strictly inside.
C7_Witness ==
    /\ Returned
    /\ \E i \in DOMAIN image.contours :
          image.contours[i].area \in {thresholds[1], thresholds[2]}
    /\ Len(Candidates) = 1

\* C8: the crop is the padded rectangle (top-left x_raw, y_raw; size w_rot,
\* h_rot) intersected with the image: it starts at max(0, raw start) and ends
\* where the unclamped rectangle ends, or at the image's edge.
C8_CropIsIntersection ==
    Returned =>
        \A b \in { c \in SeqRange(Candidates) : CentreInImage(c) } :
            /\ b.x_rot = Max(0, b.x_raw)
            /\ b.y_rot = Max(0, b.y_raw)
            /\ b.x_end = Min(image.w, b.x_raw + b.w_rot)
            /\ b.y_end = Min(image.h, b.y_raw + b.h_rot)

\* C9: a candidate whose rectangle has source width < source height gets its
\* sides swapped and angle = original + 90; any other keeps all three.
C9_SwapOnSourceSize ==
    Returned =>
        \A b \in { c \in SeqRange(Candidates) : CentreInImage(c) } :
            IF b.rect.w2 < b.rect.h2
            THEN /\ b.width = IntOfHalves(b.rect.h2)
                 /\ b.height = IntOfHalves(b.rect.w2)
                 /\ b.angle = b.rect.angle + 90
            ELSE /\ b.width = IntOfHalves(b.rect.w2)
                 /\ b.height = IntOfHalves(b.rect.h2)
                 /\ b.angle = b.rect.angle

\* C10: every emitted bean records width >= height.
C10_WidthGeHeight ==
    Returned => \A b \in SeqRange(Emitted) : b.width >= b.height

\* C10's case: a bean was emitted whose source rectangle is taller than wide.
C10_Witness ==
    /\ Returned
    /\ \E b \in SeqRange(Emitted) :
          IntOfHalves(b.rect.w2) < IntOfHalves(b.rect.h2)

\* C11: no emitted bean has a crop of zero width or of zero height; a candidate
\* whose clamped crop region is empty is skipped, not emitted.
C11_NoEmptyCropEmitted ==
    Returned =>
        /\ \A b \in SeqRange(Emitted) : b.crop_w > 0 /\ b.crop_h > 0
        /\ \A c \in SeqRange(Candidates) :
              CropEmpty(c) => \A b \in SeqRange(Emitted) : b.contour # c.contour

\* C11's case: one candidate's crop region was empty and it was skipped, while
\* another candidate of the same image was emitted.
C11_Witness ==
    /\ Returned
    /\ Len(Emitted) > 0
    /\ \E c \in SeqRange(Candidates) :
          /\ CropEmpty(c)
          /\ c.x_rot >= image.w
          /\ \A b \in SeqRange(Emitted) : b.contour # c.contour

\* C12: for every candidate the crop starts at or after 0 and ends at or before
\* the image's width and height on each axis, and the slice taken never has a
\* negative size; with the centre inside the image the end is never before the
\* start; a centre at (0,0) gives a crop whose top-left corner is (0,0).
C12_CropBoundsClamped ==
    Returned =>
        \A b \in SeqRange(Candidates) :
            /\ 0 <= b.x_rot /\ 0 <= b.y_rot
            /\ b.x_end <= image.w /\ b.y_end <= image.h
            /\ b.crop_w >= 0 /\ b.crop_h >= 0
            /\ CentreInImage(b) => (b.x_rot <= b.x_end /\ b.y_rot <= b.y_end)
            /\ (b.rect.cx2 = 0 /\ b.rect.cy2 = 0) => (b.x_rot = 0 /\ b.y_rot = 0)

\* C12's case: a candidate centred at (0,0), whose padded rectangle starts left
\* of and above the image, beside one that reaches past the right edge.
C12_Witness ==
    /\ Returned
    /\ \E b \in SeqRange(Candidates) :
          /\ b.rect.cx2 = 0 /\ b.rect.cy2 = 0
          /\ b.x_raw < 0 /\ b.y_raw < 0
          /\ b.x_rot = 0 /\ b.y_rot = 0
    /\ \E b \in SeqRange(Candidates) :
          /\ CentreInImage(b)
          /\ b.x_rot + b.w_rot > image.w
          /\ b.x_end = image.w

\* C22: the emitted beans are a subsequence of the candidates, in the order of
\* extraction; a candidate whose crop is empty is skipped with a warning, and
\* every other candidate, the later ones included, is emitted with the values
\* it has as a candidate.
C22_SubsequenceInOrder ==
    Returned =>
        LET Valid(c) == ~CropEmpty(c)
            skipped  == SelectSeq(Candidates, CropEmpty)
        IN  /\ \A i, j \in DOMAIN Emitted :
                  i < j => /\ Emitted[i].contour < Emitted[j].contour
                           /\ Emitted[i].idx < Emitted[j].idx
            /\ Emitted = SelectSeq(Candidates, Valid)
            /\ returned[1].warnings = [k \in 1..Len(skipped) |-> skipped[k].label]

\* C22's case: a candidate was skipped and a later candidate was emitted.
C22_Witness ==
    /\ Returned
    /\ \E i, j \in DOMAIN Candidates :
          /\ i < j
          /\ CropEmpty(Candidates[i])
          /\ returned[1].warnings = <<i>>
          /\ Emitted = <<Candidates[j]>>

\* C23: the index recorded on an emitted bean is the 1-based position of its
\* candidate among the filtered contours, the number drawn as its label.
C23_IndexIsLabel ==
    Returned =>
        \A k \in DOMAIN Candidates :
            (\E b \in SeqRange(Emitted) : b = Candidates[k]) =>
                /\ Candidates[k].idx = k
                /\ Candidates[k].idx = returned[1].result[k].label

\* C24: the argument carries no box after the call, no crop is cut from an
\* image that carries a box, and the overview carries one box and one label
\* (1, 2, ...) for every filtered contour, skipped or not.
C24_InputUnchanged ==
    Returned =>
        LET filtered == filtered_contours(image, thresholds[1], thresholds[2])
        IN  /\ returned[1].image_marks = 0
            /\ \A b \in SeqRange(Emitted) : b.crop_marks = 0
            /\ Len(returned[1].result) = Len(filtered)
            /\ \A k \in DOMAIN filtered :
                  /\ returned[1].result[k].contour = filtered[k]
                  /\ returned[1].result[k].label = k

\* C24's case: two boxes were drawn, the second candidate was emitted after
\* the first box was on the overview, and one candidate was skipped.
C24_Witness ==
    /\ Returned
    /\ Len(returned[1].result) = 2
    /\ Len(returned[1].warnings) = 1
    /\ \E b \in SeqRange(Emitted) : b.label = 2

\* C26: a candidate whose centre lies inside the image has x_start < x_end and
\* y_start < y_end: it is not skipped, it is emitted.
C26_CentreInsideNeverSkipped ==
    Returned =>
        \A c \in SeqRange(Candidates) :
            CentreInImage(c) =>
                /\ c.x_rot < c.x_end
                /\ c.y_rot < c.y_end
                /\ \E b \in SeqRange(Emitted) : b = c

\* C26's case: a candidate centred half a pixel from the right edge, whose
\* padded rectangle is cut by that edge, was emitted.
C26_Witness ==
    /\ Returned
    /\ \E b \in SeqRange(Emitted) :
          /\ b.rect.cx2 = 2 * image.w - 1
          /\ b.x_rot > 0
          /\ b.x_end = image.w
          /\ b.x_rot + b.w_rot > image.w

----------------------------------------------------------------------------
(* Claims about the worker pool and save_image (checked under SpecPool) *)

Spawned == mainPc \notin {"idle", "start"} /\ image_files = original_listing
               /\ \A w \in Workers : wpc[w] # "unborn"

Busy == {"process", "scan", "write"}

RunFiles == { f \in crops : f.by # <<>> }

\* C1: once main has returned, every path of image_files has been dequeued
\* exactly once.
C1_EveryPathDequeuedOnce ==
    mainPc = "returned" =>
        \A i \in DOMAIN image_files :
            /\ image_files[i] \in DOMAIN dequeued
            /\ dequeued[image_files[i]] = 1

\* C2: an exception raised while a worker processes or writes an image does
\* not end the worker: from a state where it has an image in hand, its next
\* step leaves it with that image or back at get.
C2_ExceptionKeepsWorker ==
    [][\A w \in Workers : wpc[w] \in Busy => wpc'[w] \in Busy \cup {"get"}]_vars

\* C3: every save_image call writes the file numbered m + 1, m the numerically
\* highest suffix among the files matching its namespace when it scanned, and
\* so does not write over a file that existed then.
C3_NumberIsHighestPlusOne ==
    \A k \in DOMAIN log : log[k].num = log[k].scan_max + 1

\* C4: save_image's scan and write are not atomic.  Whenever two workers' calls
\* for the same namespace both scanned before either wrote (no write lies
\* between the two scans), both wrote the same file name, so that the run left
\* fewer crop files than it completed save_image calls.
C4_RaceWritesSameName ==
    \A i, j \in DOMAIN log :
        ( /\ i < j
          /\ log[i].w # log[j].w
          /\ log[i].ns = log[j].ns
          /\ log[i].scan_clock = log[j].scan_clock )
        => /\ log[i].num = log[j].num
           /\ Cardinality(RunFiles) < Len(log)

\* C4's case: two workers scanned the same folder state for one namespace, the
\* second write replaced the file of the first, which is gone.
C4_Witness ==
    \E i, j \in DOMAIN log :
        /\ i < j
        /\ log[i].w # log[j].w
        /\ log[i].ns = log[j].ns
        /\ log[i].scan_clock = log[j].scan_clock
        /\ log[j].existed
        /\ Cardinality(RunFiles) < Len(log)

\* C5: under fair scheduling every worker eventually terminates and main
\* eventually returns.  Stated for a finite run: main is never blocked in put
\* on a full queue when every worker process has ended; from such a state no
\* process can take a step, so main never returns.
C5_MainNeverBlockedForever ==
    ~( /\ mainPc \in {"put", "sentinel"}
       /\ Len(image_queue) = maxsize
       /\ \A w \in Workers : wpc[w] \in {"exited", "crashed"} )

\* C6: when main has returned, every worker it spawned has dequeued exactly
\* one sentinel.
C6_OneSentinelEach ==
    (mainPc = "returned" /\ Spawned) => \A w \in Workers : sentinels[w] = 1

Decoded(p) == imread(p) # None

\* The namespace the claim gives the crops of path: the base name with only its
\* last part (the extension) removed, then "_coffee_bean".
StemNamespace(path) ==
    LET stem == SubSeq(path, 1, Len(path) - 1)
    IN  [i \in 1..Len(stem) |->
            IF i = Len(stem) THEN stem[i] \o <<"coffee", "bean">> ELSE stem[i]]

\* C13: when a dequeued path does not decode, the worker logs a warning, does
\* not call process_coffee_beans on it, writes neither an overview nor a crop
\* for it, and is back at get for the next item: no worker ever has such a
\* path in hand.
C13_UndecodableSkipped ==
    /\ \A p \in DOMAIN dequeued :
          ~Decoded(p) =>
              /\ p \in warned
              /\ p \notin DOMAIN processed
              /\ \A f \in RunFiles : f.by[1] # p
              /\ \A w \in Workers : image_path[w] # p
    /\ \A w \in Workers : wpc[w] \in Busy => Decoded(image_path[w])
    /\ \A p \in warned : p \in DOMAIN dequeued /\ ~Decoded(p)

\* C13's case: the run has ended; a path that does not decode was dequeued and
\* warned about, and another image got its overview and its crops.
C13_Witness ==
    /\ mainPc = "returned"
    /\ \E p \in warned : dequeued[p] = 1
    /\ \E q \in DOMAIN processed : \E f \in RunFiles : f.by[1] = q
    /\ \A w \in Workers : wpc[w] = "exited"

\* C14: every crop is written under the namespace {B}_coffee_bean, B the source
\* file's base name with only its extension removed (x.y.jpg gives x.y).
C14_NamespaceIsStem ==
    \A k \in DOMAIN log : <<log[k].ns>> = StemNamespace(log[k].path)

\* C15: the queue never holds more than maxsize = 16 items; main's put can
\* proceed exactly when it holds fewer than 16, a worker's get exactly when it
\* holds at least one.
C15_Backpressure ==
    /\ Len(image_queue) <= 16
    /\ mainPc = "put" => (ENABLED MainPut <=> Len(image_queue) < 16)
    /\ mainPc = "sentinel" => (ENABLED MainSentinel <=> Len(image_queue) < 16)
    /\ \A w \in Workers :
          wpc[w] = "get" => (ENABLED WorkerGet(w) <=> Len(image_queue) > 0)

\* C15's case: main is blocked in put on a queue of 16 items while a worker can
\* still get.
C15_Witness ==
    /\ mainPc = "put"
    /\ Len(image_queue) = 16
    /\ \E w \in Workers : wpc[w] = "get"

\* C16: while the source folder is missing, main spawns no worker, enqueues
\* nothing and creates neither destination folder, and it returns after
\* reporting the error; when the source folder exists, main creates the
\* destination folders that are missing and goes on.
C16_MissingFolders ==
    /\ "original" \notin folders =>
          /\ mainPc \in {"start", "returned"}
          /\ \A w \in Workers : wpc[w] = "unborn"
          /\ image_queue = <<>> /\ dequeued = <<>>
          /\ "processed" \notin folders /\ "coffee_beans" \notin folders
          /\ mainPc = "returned" =>
                main_log = << <<"error", "source folder missing", <<>>>> >>
    /\ ("original" \in folders /\ mainPc # "start") =>
          /\ {"processed", "coffee_beans"} \subseteq folders
          /\ Spawned
          /\ \A k \in DOMAIN main_log : main_log[k][1] # "error"

\* C16's case: main has returned on a missing source folder, having logged the
\* error.
C16_Witness ==
    /\ mainPc = "returned"
    /\ "original" \notin folders
    /\ Len(main_log) = 1

\* C17: at the end of a run in which some image was skipped, main has reported
\* the number of files it found and the number of files fully processed.
C17_ReportsFoundAndProcessed ==
    (mainPc = "returned" /\ Spawned /\ warned # {}) =>
        /\ \E k \in DOMAIN main_log :
              /\ main_log[k][2] = "images found"
              /\ main_log[k][3] = <<Len(image_files)>>
        /\ \E k \in DOMAIN main_log :
              /\ main_log[k][2] # "images found"
              /\ Len(main_log[k][3]) = 1

\* C18: when the run has ended, every input that decoded has exactly one
\* overview in the processed folder, under its own base file name, and that
\* overview is JPEG-encoded.
C18_OneJpegOverview ==
    mainPc = "returned" =>
        \A p \in DOMAIN dequeued :
            Decoded(p) =>
                /\ p \in DOMAIN processed
                /\ processed[p] = 1
                /\ OverviewFormat(p) = "jpeg"

\* C20: for each decoded image the worker writes the overview once, then one
\* crop per emitted bean in order, all before its next get: an image no worker
\* has in hand has its overview and all its crops written; an image in hand
\* has no crop before its overview, and its crops so far are beans 1, 2, ...
C20_WritesInOrder ==
    \A p \in DOMAIN dequeued :
        Decoded(p) =>
            LET OfP(e) == e.path = p
                writes == SelectSeq(log, OfP)
                holders == { w \in Workers : image_path[w] = p }
                overviews == IF p \in DOMAIN processed THEN processed[p] ELSE 0
            IN  /\ \A i \in DOMAIN writes : writes[i].k = i
                /\ IF holders = {}
                   THEN overviews = 1 /\ Len(writes) = Len(BeansOf(p))
                   ELSE \A w \in holders :
                          IF wpc[w] = "process"
                          THEN overviews = 0 /\ writes = <<>>
                          ELSE overviews = 1 /\ Len(writes) = bean_k[w] - 1

\* C21: no worker has terminated while an image path is still in the queue
\* or still to be put; and when main has returned, every decoded image has its
\* overview and all its crops written, and no worker is in the middle of one.
C21_NoEarlyTermination ==
    /\ \A w \in Workers :
          wpc[w] \in {"exited", "crashed"} =>
              /\ mainPc # "put"
              /\ \A i \in DOMAIN image_queue : image_queue[i] = None
    /\ mainPc = "returned" =>
          /\ \A w \in Workers : wpc[w] \notin Busy
          /\ \A p \in DOMAIN dequeued :
                Decoded(p) =>
                    LET OfP(e) == e.path = p
                    IN  /\ p \in DOMAIN processed
                        /\ Len(SelectSeq(log, OfP)) = Len(BeansOf(p))

C28_NamespaceIsolation ==
    \A k \in DOMAIN log : log[k].latest = log[k].scan_own

----------------------------------------------------------------------------
(* Claims about clean_dataset (checked under SpecClean) *)

\* C25: when several keys have the same standard path, the cleaned dataset
\* keeps exactly one entry for that path, with the labels of the last-listed
\* of those keys; when no two keys have the same standard path the result is
\* (False, data), data unchanged.
C25_KeepsLatestLabels ==
    clean_result # <<>> =>
        LET out == clean_result[1]
            shared == \E i, j \in DOMAIN data :
                          i # j /\ abs_path(data[i].path) = abs_path(data[j].path)
        IN  IF ~shared
            THEN out = [cleaned |-> FALSE, data |-> data]
            ELSE /\ out.cleaned
                 /\ \A i \in DOMAIN data :
                       LET same == { j \in DOMAIN data :
                                       abs_path(data[j].path) = abs_path(data[i].path) }
                           last == CHOOSE j \in same : \A k \in same : k <= j
                           kept == { k \in DOMAIN out.data :
                                       abs_path(out.data[k].path) = abs_path(data[i].path) }
                       IN  /\ Cardinality(kept) = 1
                           /\ \A k \in kept : out.data[k].labels = data[last].labels

----------------------------------------------------------------------------
(* Claims about CoffeeBeanLabeler (checked under SpecLabeler) *)

\* C30: with a non-empty image list, once current_index was initialised from
\* last_index, 0 <= current_index <= len(image_paths) - 1 after any sequence
\* of the navigation operations.
C30_IndexInRange ==
    labelerPc = "ready" =>
        /\ NumImages >= 1
        /\ 0 <= current_index
        /\ current_index <= NumImages - 1

\* C30's case: last_index was beyond the end of a list of more than page_step
\* images and was clamped; navigation has since moved the index off the end,
\* to an image found by a label.
C30_Witness ==
    /\ labelerPc = "ready"
    /\ NumImages > page_step
    /\ last_index > NumImages - 1
    /\ current_index < NumImages - 1
    /\ current_index > 0
    /\ MultiLabel(LabelsAt(current_index))

----------------------------------------------------------------------------
(* Claims about show_overview (checked under SpecOverview) *)

\* C29: loading_finished is emitted only after show_overview has connected
\* its handler, so the loading dialog is closed: the loader has never emitted
\* the signal unheard, and the threads never come to rest (loader finished,
\* GUI thread in its event loop with nothing queued) with the dialog open.
C29_FinishedNeverMissed ==
    /\ ~missed
    /\ ~( /\ loaderPc = "finished"
          /\ guiPc = "event_loop"
          /\ gui_events = <<>>
          /\ dialog_open )

====
